---------------------------- MODULE Spec2Model ----------------------------
(***************************************************************************)
(* A model of the retail analysis scripts: retail_analysis.py (loader,     *)
(* aggregators, cohort retention) and update_products.py (relabelling).    *)
(*                                                                         *)
(* A table (DataFrame) is a sequence of rows, each row a record of its     *)
(* columns; the field `index` is the pandas row label.  A nullable cell is *)
(* a sequence of length at most one: << >> is NaN/NaT, <<v>> is the value  *)
(* v.  Numbers are exact integers: a number parsed from text is a          *)
(* fixed-point number of hundredths (to_numeric of "2.5" is 250), a        *)
(* product of two of them is in ten-thousandths, and a retention rate is   *)
(* in hundredths of a percent (10000 is 100.00%), what round(2) leaves.    *)
(***************************************************************************)
EXTENDS Integers, Sequences, FiniteSets, TLC

VARIABLES
    pc,           \* position of the run: which function of main() has run
    raw,          \* the CSV file as read by pd.read_csv (raw text cells)
    df,           \* the DataFrame the functions share (mutated in place)
    retention,    \* analyze_cohort_retention: the matrix given to the heatmap
    agg,          \* the aggregators' local tables, by the source's names
    out           \* update_products.py: the table written to the new CSV

vars == <<pc, raw, df, retention, agg, out>>

-----------------------------------------------------------------------------
(* Bounds of the model *)

MaxRows == 4          \* rows of a table given to the cohort analysis
MaxCust == 3          \* distinct customer ids in a table
MaxLoadRows == 2      \* rows of a raw CSV file given to the loader
MaxAggRows == 3       \* rows of a small table given to the aggregators
MaxZones == 21        \* groups of a large table given to the aggregators
MaxTie == 21          \* longest run of equal values in a large table
MaxRelabelRows == 3   \* rows of a small CSV file given to the relabelling
MaxDescriptions == 42 \* distinct descriptions of a large CSV file
MaxShift == 2         \* random outcomes tried: rotations by 0 .. MaxShift

-----------------------------------------------------------------------------
(* Generic helpers for pandas' semantics *)

NaN == << >>

IsNull(x) == x = << >>

Val(x) == x[1]

SetMin(S) == CHOOSE x \in S : \A y \in S : x <= y

SetMax(S) == CHOOSE x \in S : \A y \in S : x >= y

\* the integers of S in ascending order (a sorted pandas Index)
SortedSeq(S) ==
    [p \in 1 .. Cardinality(S) |->
        CHOOSE x \in S : Cardinality({y \in S : y < x}) = p - 1]

Range(s) == {s[i] : i \in DOMAIN s}

RECURSIVE Reverse(_)
Reverse(s) == IF s = << >> THEN << >> ELSE Append(Reverse(Tail(s)), Head(s))

\* Series.unique(): the distinct values in order of first appearance
unique(s) ==
    LET firsts == SortedSeq({i \in DOMAIN s : \A j \in 1 .. (i - 1) : s[j] # s[i]})
    IN [p \in DOMAIN firsts |-> s[firsts[p]]]

\* position (from 1) of x in a sequence without repeats
IndexOf(s, x) == CHOOSE i \in DOMAIN s : s[i] = x

\* numpy's round-half-to-even of num/den, for num >= 0 and den > 0
RoundHalfEven(num, den) ==
    LET q == num \div den
        r == num % den
    IN IF 2 * r < den THEN q
       ELSE IF 2 * r > den THEN q + 1
       ELSE IF q % 2 = 0 THEN q ELSE q + 1

-----------------------------------------------------------------------------
(* Rows *)

\* a Timestamp; the analyses read only its year and month
Date(y, m) == [year |-> y, month |-> m, day |-> 1, hour |-> 0, minute |-> 0]

\* a loaded row; the cohort columns do not exist yet (all NaN)
Row(i, desc, qty, price, date, cust, zone) ==
    [index |-> i, Sensor_Type |-> desc, Signal_Strength |-> qty, SNR |-> price,
     Effective_Throughput |->
        IF IsNull(qty) \/ IsNull(price) THEN NaN ELSE <<Val(qty) * Val(price)>>,
     InvoiceDate |-> date, Receiver_ID |-> cust, Transmission_Zone |-> zone,
     InvoiceQuarter |-> NaN, InvoiceQuarterID |-> NaN, CohortQuarterID |-> NaN,
     CohortQuarter |-> NaN, CohortIndex |-> NaN]

-----------------------------------------------------------------------------
(* analyze_cohort_retention *)

\* dt.quarter
Quarter(d) == ((d.month - 1) \div 3) + 1

\* 'Q' + quarter + '/' + year
InvoiceQuarterOf(d) == <<"Q", Quarter(d), "/", d.year>>

\* df['InvoiceQuarter'].unique(): bucket keys in first-seen order
QuarterKeys(t) == unique([i \in DOMAIN t |-> InvoiceQuarterOf(t[i].InvoiceDate)])

\* dict(zip(unique(), range(len(unique())))): key -> dense index from 0
quarters_map(t) ==
    LET keys == QuarterKeys(t)
    IN [k \in Range(keys) |-> IndexOf(keys, k) - 1]

\* dict(zip(quarters_map.values(), quarters_map.keys())): index -> key
quarters_inverse(t) ==
    LET keys == QuarterKeys(t)
    IN [n \in 0 .. (Len(keys) - 1) |-> keys[n + 1]]

\* the reduction of groupby('Receiver_ID')['InvoiceQuarterID'].transform
TransformMax(S) == SetMax(S)

CohortReduce(S) == SetMin(S)

\* groupby('Receiver_ID')[...].transform('min'): NaN keys get NaN
CohortQuarterIDOf(t, qm, i) ==
    IF IsNull(t[i].Receiver_ID) THEN NaN
    ELSE <<CohortReduce({qm[InvoiceQuarterOf(t[j].InvoiceDate)] :
                j \in {k \in DOMAIN t : t[k].Receiver_ID = t[i].Receiver_ID}})>>

\* lines 194-206: the five columns added to df
WithCohortColumns(t) ==
    LET qm == quarters_map(t)
        inv == quarters_inverse(t)
    IN [i \in DOMAIN t |->
          LET key == InvoiceQuarterOf(t[i].InvoiceDate)
              id == qm[key]
              cid == CohortQuarterIDOf(t, qm, i)
          IN [t[i] EXCEPT
                !.InvoiceQuarter = <<key>>,
                !.InvoiceQuarterID = <<id>>,
                !.CohortQuarterID = cid,
                !.CohortQuarter = IF IsNull(cid) THEN NaN ELSE <<inv[Val(cid)]>>,
                !.CohortIndex = IF IsNull(cid) THEN NaN ELSE <<id - Val(cid)>>]]

\* the rows of one (CohortQuarterID, CohortIndex) group
GroupRows(t, c, k) ==
    {i \in DOMAIN t : t[i].CohortQuarterID = <<c>> /\ t[i].CohortIndex = <<k>>}

\* a plain row count, which is not what the code takes
GroupSize(t, c, k) == Cardinality(GroupRows(t, c, k))

\* pd.Series.nunique over the group's Receiver_ID (NaN not counted)
Customer_Count(t, c, k) ==
    Cardinality({Val(t[i].Receiver_ID) :
                    i \in {j \in GroupRows(t, c, k) : ~IsNull(t[j].Receiver_ID)}})

\* a pivot that fills absent cells with 0, which is not what the code does
ZeroCell == <<0>>

\* pivot_table's fill_value default: an absent (index, column) pair is NaN
MissingCell == NaN

\* pivot_table(index='CohortQuarterID', columns='CohortIndex'): groups with a
\* NaN key are dropped, index and columns are sorted, absent cells are NaN
cohort_retention_count(t) ==
    LET rows == {i \in DOMAIN t :
                    ~IsNull(t[i].CohortQuarterID) /\ ~IsNull(t[i].CohortIndex)}
        ids == SortedSeq({Val(t[i].CohortQuarterID) : i \in rows})
        cols == SortedSeq({Val(t[i].CohortIndex) : i \in rows})
    IN [index |-> ids, columns |-> cols,
        values |-> [r \in DOMAIN ids |-> [c \in DOMAIN cols |->
            IF GroupRows(t, ids[r], cols[c]) = {} THEN MissingCell
            ELSE <<Customer_Count(t, ids[r], cols[c])>>]]]

\* a wrong choice of the normalising column: the last one
LastColumn(p, r) == p.values[r][Len(p.columns)]

\* cohort_retention_count.iloc[:, 0]
cohort_size(p, r) == p.values[r][1]

\* divide(cohort_size, axis=0) * 100, round(2); NaN where either is NaN.
\* A cohort size is a count of at least 1; a size of 0 would give inf, which
\* is no number either.
Rate(cell, size) ==
    IF IsNull(cell) \/ IsNull(size) \/ Val(size) = 0 THEN NaN
    ELSE <<RoundHalfEven(Val(cell) * 100 * 100, Val(size))>>

\* rows kept in pivot order, which is not what the code does
KeepOrder(s) == s

\* retention.iloc[::-1]
RowOrder(s) == Reverse(s)

\* lines 221-229: label rows by quarter, normalise, reverse
RetentionOf(t) ==
    LET p == cohort_retention_count(t)
        inv == quarters_inverse(t)
    IN [index |-> RowOrder([r \in DOMAIN p.index |-> inv[p.index[r]]]),
        columns |-> p.columns,
        values |-> RowOrder([r \in DOMAIN p.index |-> [c \in DOMAIN p.columns |->
                        Rate(p.values[r][c], cohort_size(p, r))]])]

NoRetention == [index |-> << >>, columns |-> << >>, values |-> << >>]

NoAgg ==
    [country_sales |-> << >>, country_purchases |-> << >>,
     top_countries |-> << >>, bottom_countries |-> << >>,
     country_customers |-> << >>, top_customers |-> << >>,
     bottom_customers |-> << >>, product_quantities |-> << >>,
     top_products |-> << >>, bottom_products |-> << >>]

\* The three sample timestamps: one in each of three consecutive quarters
Dates == {Date(2009, 12), Date(2010, 2), Date(2010, 6)}

Customers(t) == {Val(t[i].Receiver_ID) : i \in {j \in DOMAIN t : ~IsNull(t[j].Receiver_ID)}}

InitCohort ==
    /\ pc = "reading"
    /\ raw = << >>
    /\ df = << >>
    /\ retention = NoRetention
    /\ agg = NoAgg
    /\ out = << >>

\* One more row of the loaded table, in any row order: any sample timestamp,
\* a null or non-null customer.  Customer ids only matter up to renaming, so
\* a new customer takes the next unused id.
read_row ==
    /\ pc = "reading"
    /\ Len(df) < MaxRows
    /\ \E d \in Dates :
       \E c \in {NaN} \cup {<<x>> : x \in 1 .. SetMin({MaxCust,
                                        Cardinality(Customers(df)) + 1})} :
          df' = Append(df, Row(Len(df), <<1>>, <<1>>, <<100>>, d, c, <<1>>))
    /\ UNCHANGED <<pc, raw, retention, agg, out>>

\* the table is complete and handed to the analyses
loaded ==
    /\ pc = "reading"
    /\ pc' = "loaded"
    /\ UNCHANGED <<raw, df, retention, agg, out>>

\* iloc[:, 0] on a table without columns raises IndexError
analyze_cohort_retention ==
    /\ pc = "loaded"
    /\ df' = WithCohortColumns(df)
    /\ IF cohort_retention_count(df').columns = << >>
       THEN pc' = "raised" /\ retention' = NoRetention
       ELSE pc' = "cohort_done" /\ retention' = RetentionOf(df')
    /\ UNCHANGED <<raw, agg, out>>

NextCohort == read_row \/ loaded \/ analyze_cohort_retention

SpecCohort == InitCohort /\ [][NextCohort]_vars

-----------------------------------------------------------------------------
(* Properties of analyze_cohort_retention *)

Analysed == pc \in {"cohort_done", "raised"}

RowsOfCustomer(c) == {i \in DOMAIN df : df[i].Receiver_ID = <<c>>}

\* calendar position of a date's quarter, and of a quarter key
ChronOfDate(d) == d.year * 4 + Quarter(d)

ChronOfKey(k) == k[4] * 4 + k[2]

\* the retention cell of the cohort labelled `key` at offset k (NaN if absent)
Cell(key, k) ==
    IF \E r \in DOMAIN retention.index, c \in DOMAIN retention.columns :
            retention.index[r] = key /\ retention.columns[c] = k
    THEN LET r == CHOOSE r \in DOMAIN retention.index : retention.index[r] = key
             c == CHOOSE c \in DOMAIN retention.columns : retention.columns[c] = k
         IN retention.values[r][c]
    ELSE NaN

Abs(x) == IF x < 0 THEN -x ELSE x

\* C1: every customer with a non-null Receiver_ID has the same CohortQuarter
\* on all of its rows, and it is the earliest calendar quarter in which the
\* customer has a transaction, whatever the row order of the table.
C1_CohortIsEarliestCalendarQuarter ==
    Analysed =>
        \A c \in Customers(df) : \A i \in RowsOfCustomer(c) :
            /\ ~IsNull(df[i].CohortQuarter)
            /\ \A j \in RowsOfCustomer(c) : df[j].CohortQuarter = df[i].CohortQuarter
            /\ \E j \in RowsOfCustomer(c) :
                /\ Val(df[i].CohortQuarter) = InvoiceQuarterOf(df[j].InvoiceDate)
                /\ \A k \in RowsOfCustomer(c) :
                       ChronOfDate(df[j].InvoiceDate) <= ChronOfDate(df[k].InvoiceDate)

\* C2: for every customer with a non-null Receiver_ID, CohortQuarterID is at
\* most the InvoiceQuarterID of each of its rows, CohortIndex is their
\* difference and is >= 0 on every row, and is 0 on at least one row.
C2_CohortIndexNonNegative ==
    Analysed =>
        \A c \in Customers(df) :
            /\ \A i \in RowsOfCustomer(c) :
                /\ ~IsNull(df[i].CohortQuarterID) /\ ~IsNull(df[i].CohortIndex)
                /\ Val(df[i].CohortQuarterID) <= Val(df[i].InvoiceQuarterID)
                /\ Val(df[i].CohortIndex) =
                       Val(df[i].InvoiceQuarterID) - Val(df[i].CohortQuarterID)
                /\ Val(df[i].CohortIndex) >= 0
            /\ \E i \in RowsOfCustomer(c) : df[i].CohortIndex = <<0>>

\* a customer seen in a later bucket before an earlier row of its own cohort
\* bucket, i.e. with rows at offset 0 and at a positive offset
C2_Witness ==
    /\ pc = "cohort_done"
    /\ \E c \in Customers(df) : \E i, j \in RowsOfCustomer(c) :
          /\ df[i].CohortIndex = <<0>>
          /\ Val(df[j].CohortIndex) > 0
          /\ Cardinality(Customers(df)) >= 2

\* the cohorts of the table: the quarter keys some customer is assigned
CohortKeys ==
    {Val(df[i].CohortQuarter) : i \in {j \in DOMAIN df : ~IsNull(df[j].CohortQuarter)}}

\* C3: when the table has at least one row with a non-null customer id, the
\* analysis completes, every cohort has a row, and every row's cell at
\* offset 0 is defined and is exactly 100.00.
C3_OffsetZeroIsHundred ==
    (Analysed /\ Customers(df) # {}) =>
        /\ pc = "cohort_done"
        /\ Range(retention.index) = CohortKeys
        /\ retention.columns # << >> /\ retention.columns[1] = 0
        /\ \A r \in DOMAIN retention.index : retention.values[r][1] = <<10000>>

\* two cohorts, one of them with two customers, and more than one offset
C3_Witness ==
    /\ pc = "cohort_done"
    /\ Len(retention.index) >= 2
    /\ Len(retention.columns) >= 2
    /\ \E key \in CohortKeys :
          Cardinality({c \in Customers(df) : \E i \in RowsOfCustomer(c) :
                            df[i].CohortQuarter = <<key>>}) >= 2

\* customers of the cohort with id c, and those of them active at offset k
Members(c) ==
    {x \in Customers(df) : \E i \in RowsOfCustomer(x) : df[i].CohortQuarterID = <<c>>}

Active(c, k) ==
    {x \in Members(c) : \E i \in RowsOfCustomer(x) :
                            Val(df[i].InvoiceQuarterID) - c = k}

KeyOfID(c) ==
    Val(df[CHOOSE i \in DOMAIN df : df[i].InvoiceQuarterID = <<c>>].InvoiceQuarter)

\* C4: the cell (c, k) is 100 * (distinct customers of cohort c with a row at
\* offset k) / (distinct customers of cohort c) rounded to two decimals,
\* however many rows a customer has in a bucket, and is undefined exactly
\* when no customer of cohort c has a row at offset k.
C4_CellIsDistinctCustomerShare ==
    pc = "cohort_done" =>
        \A c \in {Val(df[i].CohortQuarterID) :
                      i \in {j \in DOMAIN df : ~IsNull(df[j].CohortQuarterID)}} :
            \A k \in (0 - MaxRows) .. MaxRows :
                LET n == Cardinality(Active(c, k))
                    d == Cardinality(Members(c))
                    cell == Cell(KeyOfID(c), k)
                IN IF n = 0 THEN IsNull(cell)
                   ELSE /\ ~IsNull(cell)
                        /\ 2 * Abs(Val(cell) * d - 100 * 100 * n) <= d

\* the worked example: three customers first seen in buckets 0, 0, 1, the
\* first also active in bucket 1, gives 50.00 at (cohort 0, offset 1)
C4_Witness ==
    /\ pc = "cohort_done"
    /\ Cardinality(Customers(df)) = 3
    /\ Cardinality(Members(0)) = 2
    /\ Cardinality(Members(1)) = 1
    /\ Cardinality(Active(0, 1)) = 1
    /\ Cell(KeyOfID(0), 1) = <<5000>>
    /\ Cell(KeyOfID(1), 1) = NaN

\* id of a quarter key, read from the table's columns
IDOfKey(key) ==
    Val(df[CHOOSE i \in DOMAIN df : df[i].InvoiceQuarter = <<key>>].InvoiceQuarterID)

\* C9 as stated: in the matrix given to the heatmap a cohort whose quarter
\* is earlier comes before a cohort whose quarter is later.
C9_RowsInCalendarOrder ==
    pc = "cohort_done" =>
        \A i, j \in DOMAIN retention.index :
            i < j => ChronOfKey(retention.index[i]) < ChronOfKey(retention.index[j])

\* C9 amended: the rows are the cohorts, each once, in descending order of
\* CohortQuarterID (the first-seen index of the cohort's quarter): the rows
\* of the pivot, reversed.
C9_RowsInReverseIDOrder ==
    pc = "cohort_done" =>
        /\ Range(retention.index) = CohortKeys
        /\ \A i, j \in DOMAIN retention.index :
              i < j => IDOfKey(retention.index[i]) > IDOfKey(retention.index[j])

\* three cohorts from a chronologically sorted table
C9_Witness ==
    /\ pc = "cohort_done"
    /\ Len(retention.index) = 3
    /\ \A i, j \in DOMAIN df :
          i < j => ChronOfDate(df[i].InvoiceDate) <= ChronOfDate(df[j].InvoiceDate)

-----------------------------------------------------------------------------
(* load_and_preprocess_data *)

Digits == {"0", "1", "2", "3", "4", "5", "6", "7", "8", "9"}

DigitVal(c) ==
    CASE c = "0" -> 0 [] c = "1" -> 1 [] c = "2" -> 2 [] c = "3" -> 3
      [] c = "4" -> 4 [] c = "5" -> 5 [] c = "6" -> 6 [] c = "7" -> 7
      [] c = "8" -> 8 [] c = "9" -> 9

RECURSIVE DigitsValue(_)
\* the number a string of digits denotes
DigitsValue(s) ==
    IF s = << >> THEN 0
    ELSE 10 * DigitsValue(SubSeq(s, 1, Len(s) - 1)) + DigitVal(s[Len(s)])

AllDigits(s) == \A i \in DOMAIN s : s[i] \in Digits

\* an unsigned decimal text: digits, optionally a point and one or two more
IsUnsigned(s) ==
    \/ s # << >> /\ AllDigits(s)
    \/ \E p \in DOMAIN s :
          /\ s[p] = "."
          /\ p > 1 /\ AllDigits(SubSeq(s, 1, p - 1))
          /\ Len(s) - p \in 1 .. 2 /\ AllDigits(SubSeq(s, p + 1, Len(s)))

\* its value in hundredths
UnsignedValue(s) ==
    IF AllDigits(s) THEN 100 * DigitsValue(s)
    ELSE LET p == CHOOSE p \in DOMAIN s : s[p] = "."
             frac == SubSeq(s, p + 1, Len(s))
         IN 100 * DigitsValue(SubSeq(s, 1, p - 1))
            + (IF Len(frac) = 1 THEN 10 * DigitsValue(frac) ELSE DigitsValue(frac))

\* errors='raise': the marker of a raised ValueError
Raised == <<0, 0>>

\* errors='coerce': an unparseable cell becomes NaN
OnParseError == NaN

\* pd.to_numeric(cell, errors='coerce'); an empty cell is NaN already
to_numeric(s) ==
    IF s = << >> THEN NaN
    ELSE IF IsUnsigned(s) THEN <<UnsignedValue(s)>>
    ELSE IF s[1] = "-" /\ IsUnsigned(Tail(s)) THEN <<0 - UnsignedValue(Tail(s))>>
    ELSE OnParseError

IsLeap(y) == (y % 4 = 0 /\ y % 100 # 0) \/ y % 400 = 0

DaysIn(m, y) ==
    IF m = 2 THEN (IF IsLeap(y) THEN 29 ELSE 28)
    ELSE IF m \in {4, 6, 9, 11} THEN 30 ELSE 31

\* %y: 00-68 are 2000-2068, 69-99 are 1969-1999
FullYear(yy) == IF yy <= 68 THEN 2000 + yy ELSE 1900 + yy

\* pd.to_datetime(cell, format='%m/%d/%y %H:%M', errors='coerce').  A cell
\* that fits the pattern is its five numbers <<m, d, yy, H, M>>; any other
\* text is a tuple of another length, and << >> is the empty cell.
to_datetime(s) ==
    IF /\ Len(s) = 5
       /\ s[1] \in 1 .. 12
       /\ s[3] \in 0 .. 99
       /\ s[2] \in 1 .. DaysIn(s[1], FullYear(s[3]))
       /\ s[4] \in 0 .. 23
       /\ s[5] \in 0 .. 59
    THEN <<[year |-> FullYear(s[3]), month |-> s[1], day |-> s[2],
            hour |-> s[4], minute |-> s[5]]>>
    ELSE NaN

\* lines 19-36: rename, coerce, derive Effective_Throughput, parse the date
Coerced(r) ==
    LET qty == to_numeric(r.Quantity)
        price == to_numeric(r.Price)
    IN [Row(r.index, r.Description, qty, price, NaN, r.CustomerID, r.Country)
          EXCEPT !.InvoiceDate = to_datetime(r.InvoiceDate)]

\* dropna() with no subset: a row with any NaN cell goes
DropsAnyNull(r) ==
    \/ IsNull(r.InvoiceDate) \/ IsNull(r.Signal_Strength) \/ IsNull(r.SNR)
    \/ IsNull(r.Effective_Throughput) \/ IsNull(r.Receiver_ID)

\* dropna(subset=['InvoiceDate'])
Dropped(r) == IsNull(r.InvoiceDate)

RECURSIVE dropna(_)
dropna(t) ==
    IF t = << >> THEN << >>
    ELSE IF Dropped(Head(t)) THEN dropna(Tail(t))
    ELSE <<[Head(t) EXCEPT !.InvoiceDate = Val(@)]>> \o dropna(Tail(t))

RawQuantities == {<<"-", "2">>, <<"1", "x">>, << >>}

RawPrices == {<<"2", ".", "5">>, <<"4">>, <<"-">>}

\* "12/1/09 7:45", "1/4/10 10:00", "2/29/10 9:00" (no such day) and
\* "2009-12-01" (another format)
RawDates == {<<12, 1, 9, 7, 45>>, <<1, 4, 10, 10, 0>>, <<2, 29, 10, 9, 0>>,
             <<2009, 12, 1>>}

RawRow(i, q, p, d) ==
    [index |-> i, Description |-> <<1>>, Quantity |-> q, Price |-> p,
     InvoiceDate |-> d, CustomerID |-> <<1>>, Country |-> <<1>>]

RECURSIVE RawTables(_)
RawTables(n) ==
    IF n = 0 THEN {<< >>}
    ELSE LET prev == RawTables(n - 1)
         IN {Append(t, RawRow(Len(t), q, p, d)) :
                t \in {u \in prev : Len(u) = n - 1},
                q \in RawQuantities, p \in RawPrices, d \in RawDates} \cup prev

InitLoad ==
    /\ pc = "start"
    /\ raw \in RawTables(MaxLoadRows)
    /\ df = << >>
    /\ retention = NoRetention
    /\ agg = NoAgg
    /\ out = << >>

load_and_preprocess_data ==
    /\ pc = "start"
    /\ LET coerced == [i \in DOMAIN raw |-> Coerced(raw[i])]
       IN IF \E i \in DOMAIN coerced :
                 Raised \in {coerced[i].Signal_Strength, coerced[i].SNR}
          THEN pc' = "raised" /\ df' = << >>
          ELSE pc' = "loaded" /\ df' = dropna(coerced)
    /\ UNCHANGED <<raw, retention, agg, out>>

NextLoad == load_and_preprocess_data

SpecLoad == InitLoad /\ [][NextLoad]_vars

-----------------------------------------------------------------------------
(* Properties of load_and_preprocess_data *)

RawOf(i) == raw[CHOOSE k \in DOMAIN raw : raw[k].index = i]

\* what each sample cell denotes, written out by hand
ExpectedNumber(s) ==
    CASE s = <<"-", "2">> -> <<0 - 200>>
      [] s = <<"2", ".", "5">> -> <<250>>
      [] s = <<"4">> -> <<400>>
      [] OTHER -> NaN

ExpectedDate(s) ==
    CASE s = <<12, 1, 9, 7, 45>> ->
            <<[year |-> 2009, month |-> 12, day |-> 1, hour |-> 7, minute |-> 45]>>
      [] s = <<1, 4, 10, 10, 0>> ->
            <<[year |-> 2010, month |-> 1, day |-> 4, hour |-> 10, minute |-> 0]>>
      [] OTHER -> NaN

\* C8: the loader does not raise on unparseable cells; the result holds
\* exactly the rows whose timestamp parses, once each and in their original
\* order, none with a null InvoiceDate; an unparseable quantity or price is
\* null and makes Effective_Throughput null, which otherwise is
\* Signal_Strength * SNR.
C8_LoaderCoercesAndDropsBadDates ==
    pc # "start" =>
        /\ pc = "loaded"
        /\ \A i, j \in DOMAIN df : i < j => df[i].index < df[j].index
        /\ {df[i].index : i \in DOMAIN df} =
              {raw[k].index :
                  k \in {n \in DOMAIN raw : ~IsNull(ExpectedDate(raw[n].InvoiceDate))}}
        /\ \A i \in DOMAIN df :
              LET r == RawOf(df[i].index)
                  q == ExpectedNumber(r.Quantity)
                  p == ExpectedNumber(r.Price)
              IN /\ <<df[i].InvoiceDate>> = ExpectedDate(r.InvoiceDate)
                 /\ df[i].Signal_Strength = q
                 /\ df[i].SNR = p
                 /\ df[i].Effective_Throughput =
                        IF IsNull(q) \/ IsNull(p) THEN NaN ELSE <<Val(q) * Val(p)>>

\* a file of two rows, the first dropped for its date, the second kept with
\* an unparseable quantity
C8_Witness ==
    /\ pc = "loaded"
    /\ Len(raw) = 2
    /\ Len(df) = 1
    /\ df[1].index = 1
    /\ IsNull(df[1].Signal_Strength)
    /\ ~IsNull(df[1].SNR)
    /\ IsNull(df[1].Effective_Throughput)

-----------------------------------------------------------------------------
(* The aggregators: analyze_customer_behavior, analyze_country_performance, *)
(* analyze_product_performance                                              *)

\* the n of nlargest(10, ...) and nsmallest(10, ...)
TopN == 10

\* groupby(col): the distinct non-null keys, ascending (NaN keys are dropped)
GroupKeys(t, col) ==
    SortedSeq({Val(t[i][col]) : i \in {j \in DOMAIN t : ~IsNull(t[j][col])}})

RECURSIVE SumOver(_, _, _)
\* Series.sum() over the rows I of t: NaN cells are skipped
SumOver(t, I, col) ==
    IF I = {} THEN 0
    ELSE LET i == SetMin(I)
         IN (IF IsNull(t[i][col]) THEN 0 ELSE Val(t[i][col]))
              + SumOver(t, I \ {i}, col)

\* agg('first'): the group's first non-null value, which is not the code's
FirstOver(t, I, col) ==
    LET J == {i \in I : ~IsNull(t[i][col])}
    IN IF J = {} THEN 0 ELSE Val(t[SetMin(J)][col])

\* the reduction 'sum' of groupby(...)[col].sum() / .agg('sum')
GroupSum(t, I, col) == SumOver(t, I, col)

\* groupby(key)[col].sum(): one row per key, in key order
GroupBySum(t, key, col) ==
    LET keys == GroupKeys(t, key)
    IN [g \in DOMAIN keys |->
          [key |-> keys[g],
           value |-> GroupSum(t, {i \in DOMAIN t : t[i][key] = <<keys[g]>>}, col)]]

\* groupby(key)[col].agg({col: 'nunique'}): distinct non-null values
GroupByNunique(t, key, col) ==
    LET keys == GroupKeys(t, key)
    IN [g \in DOMAIN keys |->
          [key |-> keys[g],
           value |-> Cardinality({Val(t[i][col]) :
                        i \in {j \in DOMAIN t :
                                 t[j][key] = <<keys[g]>> /\ ~IsNull(t[j][col])}})]]

\* nlargest without the negation: the smallest come first
NotNegated(v) == v

\* SelectNSeries.compute: nlargest sorts the negated values ascending
NLargestKey(v) == 0 - v

NSmallestKey(v) == v

\* argsort(kind='mergesort') of the keys k over the positions I: ascending,
\* equal keys in their original order
StableOrder(k, I) ==
    [p \in 1 .. Cardinality(I) |->
        CHOOSE i \in I :
            Cardinality({j \in I : k[j] < k[i] \/ (k[j] = k[i] /\ j < i)}) = p - 1]

RECURSIVE AnyOrders(_, _)
\* sort_values() with the default quicksort, which is not stable: every
\* ascending order of the keys, equal keys in any order
AnyOrders(k, I) ==
    IF I = {} THEN {<< >>}
    ELSE UNION {{<<i>> \o rest : rest \in AnyOrders(k, I \ {i})} :
                    i \in {j \in I : \A l \in I : k[j] <= k[l]}}

\* SelectNSeries.compute with keep='first': the possible results.  With n at
\* least the table's length it is sort_values().head(n); otherwise the n
\* first of a stable sort.
SelectN(n, t, k) ==
    IF n >= Len(t)
    THEN {[p \in DOMAIN ord |-> t[ord[p]]] : ord \in AnyOrders(k, DOMAIN t)}
    ELSE LET ord == StableOrder(k, DOMAIN t)
         IN {[p \in 1 .. n |-> t[ord[p]]]}

nlargest(n, t) == SelectN(n, t, [i \in DOMAIN t |-> NLargestKey(t[i].value)])

nsmallest(n, t) == SelectN(n, t, [i \in DOMAIN t |-> NSmallestKey(t[i].value)])

\* lines 69-73
analyze_customer_behavior ==
    /\ pc = "loaded"
    /\ agg' = [agg EXCEPT !.country_sales =
                  GroupBySum(df, "Transmission_Zone", "Effective_Throughput")]
    /\ pc' = "behavior_done"
    /\ UNCHANGED <<raw, df, retention, out>>

\* lines 78-82 and 115-120
analyze_country_performance ==
    /\ pc = "behavior_done"
    /\ LET country_purchases ==
              GroupBySum(df, "Transmission_Zone", "Effective_Throughput")
           country_customers ==
              GroupByNunique(df, "Transmission_Zone", "Receiver_ID")
       IN \E top_countries \in nlargest(TopN, country_purchases),
             bottom_countries \in nsmallest(TopN, country_purchases),
             top_customers \in nlargest(TopN, country_customers),
             bottom_customers \in nsmallest(TopN, country_customers) :
            agg' = [agg EXCEPT
                      !.country_purchases = country_purchases,
                      !.top_countries = top_countries,
                      !.bottom_countries = bottom_countries,
                      !.country_customers = country_customers,
                      !.top_customers = top_customers,
                      !.bottom_customers = bottom_customers]
    /\ pc' = "country_done"
    /\ UNCHANGED <<raw, df, retention, out>>

\* lines 155-159
analyze_product_performance ==
    /\ pc = "country_done"
    /\ LET product_quantities == GroupBySum(df, "Sensor_Type", "Signal_Strength")
       IN \E top_products \in nlargest(TopN, product_quantities),
             bottom_products \in nsmallest(TopN, product_quantities) :
            agg' = [agg EXCEPT
                      !.product_quantities = product_quantities,
                      !.top_products = top_products,
                      !.bottom_products = bottom_products]
    /\ pc' = "product_done"
    /\ UNCHANGED <<raw, df, retention, out>>

\* One more row of a small table: a null or non-null region, a null,
\* negative (a return) or positive quantity at unit price 1.50.
read_agg_row ==
    /\ pc = "reading"
    /\ Len(df) < MaxAggRows
    /\ \E zone \in {NaN, <<1>>, <<2>>}, qty \in {NaN, <<0 - 100>>, <<200>>} :
          df' = Append(df, Row(Len(df), zone, qty, <<150>>, Date(2010, 1),
                               IF IsNull(qty) THEN NaN ELSE <<1>>, zone))
    /\ UNCHANGED <<pc, raw, retention, agg, out>>

\* A large table of n regions (and products), one row each.  The row's
\* quantity is s * (q \div g) for q the row's place under the permutation
\* i -> (a * i + b) % n: runs of g equal values, ascending or descending,
\* in file order or scattered.
LargeTable(n, g, s, a, b) ==
    [i \in 1 .. n |->
        LET v == s * (((a * i + b) % n) \div g)
        IN Row(i - 1, <<i>>, <<100 * v>>, <<100>>, Date(2010, 1),
               IF v % 3 = 0 THEN NaN ELSE <<i>>, <<i>>)]

LargeTables ==
    {LargeTable(n, g, s, a, b) :
        n \in (2 * TopN - 1) .. MaxZones, g \in 1 .. MaxTie, s \in {0 - 1, 1},
        a \in {1, 13}, b \in {0, 7}}

InitAgg ==
    /\ raw = << >>
    /\ retention = NoRetention
    /\ agg = NoAgg
    /\ out = << >>
    /\ \/ pc = "reading" /\ df = << >>
       \/ pc = "loaded" /\ df \in LargeTables

NextAgg ==
    \/ read_agg_row
    \/ loaded
    \/ analyze_customer_behavior
    \/ analyze_country_performance
    \/ analyze_product_performance

SpecAgg == InitAgg /\ [][NextAgg]_vars

-----------------------------------------------------------------------------
(* Properties of the aggregators *)

RECURSIVE SeqSum(_)
SeqSum(s) == IF s = << >> THEN 0 ELSE Head(s).value + SeqSum(Tail(s))

RECURSIVE Total(_, _)
\* sum of Effective_Throughput over the rows at the positions I (NaN as 0)
Total(t, I) ==
    IF I = {} THEN 0
    ELSE LET i == CHOOSE i \in I : TRUE
         IN (IF IsNull(t[i].Effective_Throughput) THEN 0
             ELSE Val(t[i].Effective_Throughput)) + Total(t, I \ {i})

Zoned(t) == {i \in DOMAIN t : ~IsNull(t[i].Transmission_Zone)}

\* the per-region tables the two functions have computed so far
RegionTables ==
    (IF pc \in {"behavior_done", "country_done", "product_done"}
     THEN {agg.country_sales} ELSE {})
    \cup (IF pc \in {"country_done", "product_done"}
          THEN {agg.country_purchases} ELSE {})

\* C5 as stated: the per-region totals add up to the grand total of
\* Effective_Throughput over all rows of the table.
C5_RegionSumsEqualGrandTotal ==
    \A rt \in RegionTables : SeqSum(rt) = Total(df, DOMAIN df)

\* C5 amended: there is one total per non-null region, the sum of the
\* region's non-null amounts, and the totals add up to the total over the
\* rows whose Transmission_Zone is not null.
C5_RegionSumsEqualZonedTotal ==
    \A rt \in RegionTables :
        /\ {rt[g].key : g \in DOMAIN rt} = {Val(df[i].Transmission_Zone) : i \in Zoned(df)}
        /\ \A g, h \in DOMAIN rt : g < h => rt[g].key < rt[h].key
        /\ \A g \in DOMAIN rt :
              rt[g].value =
                  Total(df, {i \in Zoned(df) : Val(df[i].Transmission_Zone) = rt[g].key})
        /\ SeqSum(rt) = Total(df, Zoned(df))

\* two regions, one of them with two rows, and a row without a region whose
\* amount is left out of both tables
C5_Witness ==
    /\ pc = "country_done"
    /\ Len(agg.country_sales) = 2
    /\ agg.country_purchases = agg.country_sales
    /\ Len(df) = 3
    /\ \E i \in DOMAIN df :
          IsNull(df[i].Transmission_Zone) /\ ~IsNull(df[i].Effective_Throughput)
    /\ SeqSum(agg.country_sales) # Total(df, DOMAIN df)

\* the (grouped table, top list, bottom list) triples computed so far
TopBottomPairs ==
    (IF pc \in {"country_done", "product_done"}
     THEN {<<agg.country_purchases, agg.top_countries, agg.bottom_countries>>,
           <<agg.country_customers, agg.top_customers, agg.bottom_customers>>}
     ELSE {})
    \cup (IF pc = "product_done"
          THEN {<<agg.product_quantities, agg.top_products, agg.bottom_products>>}
          ELSE {})

KeysOf(s) == {s[i].key : i \in DOMAIN s}

Descending(s) == \A i, j \in DOMAIN s : i < j => s[i].value >= s[j].value

Ascending(s) == \A i, j \in DOMAIN s : i < j => s[i].value <= s[j].value

\* C6 as stated: with at least 20 groups the top-10 and bottom-10 lists
\* share no group, ties included; the top list is sorted descending and the
\* bottom list ascending.
C6_TopAndBottomDisjoint ==
    \A p \in TopBottomPairs :
        /\ Len(p[1]) >= 2 * TopN => KeysOf(p[2]) \cap KeysOf(p[3]) = {}
        /\ Descending(p[2])
        /\ Ascending(p[3])

\* C6 amended: the top list is sorted descending and the bottom list
\* ascending, each holds min(10, groups) groups of the table, and with at
\* least 20 groups the two lists share no group exactly when the 10th
\* largest value is greater than the 10th smallest value.
C6_DisjointUnlessTiedAtTheCut ==
    \A p \in TopBottomPairs :
        /\ Descending(p[2])
        /\ Ascending(p[3])
        /\ Len(p[2]) = SetMin({TopN, Len(p[1])}) /\ Len(p[3]) = Len(p[2])
        /\ Range(p[2]) \subseteq Range(p[1]) /\ Range(p[3]) \subseteq Range(p[1])
        /\ Cardinality(KeysOf(p[2])) = Len(p[2])
        /\ Cardinality(KeysOf(p[3])) = Len(p[3])
        /\ \A x \in Range(p[1]) \ Range(p[2]) : \A y \in Range(p[2]) : x.value <= y.value
        /\ \A x \in Range(p[1]) \ Range(p[3]) : \A y \in Range(p[3]) : x.value >= y.value
        /\ Len(p[1]) >= 2 * TopN =>
              (KeysOf(p[2]) \cap KeysOf(p[3]) = {}
                  <=> p[2][TopN].value > p[3][TopN].value)

\* twenty or more groups: the lists of the countries by amount are disjoint
\* (the amounts differ across the cut), those of the countries by customers
\* share a group (the counts are tied across the cut)
C6_Witness ==
    /\ pc = "product_done"
    /\ Len(agg.country_purchases) >= 2 * TopN
    /\ Len(agg.top_countries) = TopN
    /\ Len(agg.bottom_countries) = TopN
    /\ \E i, j \in DOMAIN agg.top_countries :
          i # j /\ agg.top_countries[i].value = agg.top_countries[j].value
    /\ KeysOf(agg.top_countries) \cap KeysOf(agg.bottom_countries) = {}
    /\ KeysOf(agg.top_customers) \cap KeysOf(agg.bottom_customers) # {}

-----------------------------------------------------------------------------
(* update_products.py *)

\* len(ece_products)
NumProducts == 40

\* the list of product names, each name written as its place in the list
ece_products == [i \in 1 .. NumProducts |-> i]

\* ece_products * repeat_times, cut to num_unique
repeated_products(num_unique) ==
    [j \in 1 .. num_unique |-> ece_products[((j - 1) % NumProducts) + 1]]

\* random.shuffle(repeated_products): the outcome that rotates the list by k
Shuffled(num_unique, k) ==
    LET rp == repeated_products(num_unique)
    IN [j \in 1 .. num_unique |-> rp[((j - 1 + k) % num_unique) + 1]]

\* random.sample(ece_products, num_unique): the outcome that starts at place
\* k + 1 and steps by st (coprime to the list's length, so no name repeats)
Sampled(num_unique, k, st) ==
    [j \in 1 .. num_unique |-> ece_products[((k + (j - 1) * st) % NumProducts) + 1]]

\* lines 52-70: the name given to each unique description, by its place in
\* unique_products
product_mapping(num_unique, k, st) ==
    IF num_unique > NumProducts THEN Shuffled(num_unique, k)
    ELSE Sampled(num_unique, k, st)

\* one row per description, which is not what the code writes
DropDuplicates(t) ==
    LET firsts == SortedSeq({i \in DOMAIN t :
                    \A j \in 1 .. (i - 1) : t[j].Description # t[i].Description})
    IN [p \in DOMAIN firsts |-> t[firsts[p]]]

\* the rows that are relabelled and written: all of them, in file order
RowsWritten(t) == t

\* line 73: df['Description'] = df['Description'].map(product_mapping)
Relabelled(t, k, st) ==
    LET unique_products == unique([i \in DOMAIN t |-> t[i].Description])
        mapping == product_mapping(Len(unique_products), k, st)
        rows == RowsWritten(t)
    IN [i \in DOMAIN rows |->
          [rows[i] EXCEPT !.Description =
              <<mapping[IndexOf(unique_products, rows[i].Description)]>>]]

\* One more row of a small CSV file: a null or non-null description, any
\* sample quantity and price
read_csv_row ==
    /\ pc = "reading"
    /\ Len(raw) < MaxRelabelRows
    /\ \E d \in {NaN, <<1>>, <<2>>}, q \in {<<"-", "2">>, <<"1", "x">>},
          p \in {<<"2", ".", "5">>} :
          raw' = Append(raw, [RawRow(Len(raw), q, p, <<12, 1, 9, 7, 45>>)
                                 EXCEPT !.Description = d])
    /\ UNCHANGED <<pc, df, retention, agg, out>>

\* A large CSV file: n distinct descriptions, one row each, followed by
\* `extra` more rows that repeat the first descriptions.
LargeCsv(n, extra) ==
    [i \in 1 .. (n + extra) |->
        [RawRow(i - 1, IF i % 2 = 0 THEN <<"-", "2">> ELSE <<"4">>,
                <<"2", ".", "5">>, <<1, 4, 10, 10, 0>>)
            EXCEPT !.Description = <<((i - 1) % n) + 1>>]]

InitRelabel ==
    /\ df = << >>
    /\ retention = NoRetention
    /\ agg = NoAgg
    /\ out = << >>
    /\ \/ pc = "reading" /\ raw = << >>
       \/ /\ pc = "loaded"
          /\ \E n \in (NumProducts - 1) .. MaxDescriptions, extra \in 0 .. 2 :
                raw = LargeCsv(n, extra)

\* lines 49-76: read, map the descriptions, write
update_products ==
    /\ pc = "loaded"
    /\ \E k \in 0 .. MaxShift, st \in {1, 3} : out' = Relabelled(raw, k, st)
    /\ pc' = "relabelled"
    /\ UNCHANGED <<raw, df, retention, agg>>

NextRelabel == read_csv_row \/ loaded \/ update_products

SpecRelabel == InitRelabel /\ [][NextRelabel]_vars

-----------------------------------------------------------------------------
(* Properties of update_products.py *)

\* C7: the relabelling changes only the Description column: the output has
\* the input's rows in the input's order, and every row's Quantity and
\* Price (hence Quantity * Price) and every other column but Description is
\* unchanged, whatever the shuffle or sample gives.
C7_OnlyDescriptionChanges ==
    pc = "relabelled" =>
        /\ Len(out) = Len(raw)
        /\ \A i \in DOMAIN out :
              /\ out[i].index = raw[i].index
              /\ out[i].Quantity = raw[i].Quantity
              /\ out[i].Price = raw[i].Price
              /\ out[i].InvoiceDate = raw[i].InvoiceDate
              /\ out[i].CustomerID = raw[i].CustomerID
              /\ out[i].Country = raw[i].Country
              /\ [out[i] EXCEPT !.Description = NaN] = [raw[i] EXCEPT !.Description = NaN]
              /\ ~IsNull(out[i].Description)
              /\ Val(out[i].Description) \in 1 .. NumProducts

\* more descriptions than product names (the shuffle branch), with a
\* description on two rows and at least one row's description changed
C7_Witness ==
    /\ pc = "relabelled"
    /\ Cardinality({raw[i].Description : i \in DOMAIN raw}) > NumProducts
    /\ \E i, j \in DOMAIN raw : i # j /\ raw[i].Description = raw[j].Description
    /\ \E i \in DOMAIN out : out[i].Description # raw[i].Description

\* at most as many descriptions as product names (the sample branch), with
\* a description on two rows
C7_WitnessSample ==
    /\ pc = "relabelled"
    /\ Len(raw) = MaxRelabelRows
    /\ \E i, j \in DOMAIN raw : i # j /\ raw[i].Description = raw[j].Description
    /\ \E i \in DOMAIN out : out[i].Description # raw[i].Description

=============================================================================
